---- MODULE Spec2Model ----
(***************************************************************************)
(* A model of two pieces of lazear/sml-compiler:                           *)
(*   - crates/sml-driver/src/config.rs : CompilerBuilder and               *)
(*     ArgParse::parse, the command-line parser of the driver;             *)
(*   - crates/sml-core/src/lib.rs : Expr::non_expansive (the syntactic     *)
(*     value restriction) and Row::fmap / Row::flatten.                    *)
(*                                                                         *)
(* Strings are sequences of one-character strings, so that                 *)
(* str::starts_with("--") is computed on the characters of the argument.   *)
(* Option<T> is a sequence of length at most one: None is <<>>, Some(v) is *)
(* <<v>>.                                                                  *)
(***************************************************************************)
EXTENDS Integers, Sequences, FiniteSets, TLC

VARIABLES
    \* ---- sml-driver: ArgParse::parse and CompilerBuilder::build
    args,         \* env::Args: the whole command line, program name first
    stack,        \* config.rs:49  the pending arguments, reversed
    files,        \* config.rs:50  Vec<String>
    builder,      \* config.rs:51  CompilerBuilder
    pc,           \* position of the driver
    panic,        \* the panic message once parse has panicked, else ""
    compiler,     \* the measure / verbosity / stop_phase fields of Compiler
    exit_status,  \* the process's exit status once it died of a panic
    consumed,     \* history: the arguments popped so far, with their role
    \* ---- sml-core: Expr::non_expansive
    expr,         \* the expression under test
    ne,           \* the value returned by expr.non_expansive()
    path,         \* the position of the subterm that was replaced
    mutated,      \* expr with the subterm at path replaced by a lambda
    mne,          \* the value returned by mutated.non_expansive()
    epc,          \* position of the non_expansive harness
    \* ---- sml-core: Row<T>
    row,          \* the receiver
    fun,          \* the closure handed to fmap
    out,          \* the value returned by fmap / flatten
    rpc           \* the operation that produced out

vars == <<args, stack, files, builder, pc, panic, compiler, exit_status, consumed,
          expr, ne, path, mutated, mne, epc, row, fun, out, rpc>>

argVars == <<args, stack, files, builder, pc, panic, compiler, exit_status, consumed>>
exprVars == <<expr, ne, path, mutated, mne, epc>>
rowVars == <<row, fun, out, rpc>>

\* ------------------------------------------------------------------------
\* Option<T>
None == <<>>

Some(v) == <<v>>

unwrap_or(opt, default) == IF opt = None THEN default ELSE opt[1]

\* ------------------------------------------------------------------------
\* The strings of config.rs
FlagSilent == <<"-", "-", "s", "i", "l", "e", "n", "t">>

FlagV == <<"-", "-", "v">>

FlagVV == <<"-", "-", "v", "v">>

FlagMeasure == <<"-", "-", "m", "e", "a", "s", "u", "r", "e">>

FlagPhase == <<"-", "-", "p", "h", "a", "s", "e">>

DashDash == <<"-", "-">>

StrParse == <<"p", "a", "r", "s", "e">>

StrElab == <<"e", "l", "a", "b">>

StrMono == <<"m", "o", "n", "o">>

StrFlat == <<"f", "l", "a", "t">>

StrElaborate == <<"e", "l", "a", "b", "o", "r", "a", "t", "e">>

StrMonomorphize == <<"m", "o", "n", "o", "m", "o", "r", "p", "h", "i", "z", "e">>

StrFlatten == <<"f", "l", "a", "t", "t", "e", "n">>

\* String::default()
EmptyString == <<>>

\* The command lines explored: the five flags, the four phase names (file
\* names where no --phase precedes them), "--" alone, which is a flag the
\* parser does not know, and a single dash, which is a file name.
MaxArgs == 4

Words ==
    { FlagSilent, FlagV, FlagVV, FlagMeasure, FlagPhase,
      StrParse, StrElab, StrMono, StrFlat, DashDash, <<"-">> }

ProgNames == { <<"s", "m", "l">>, FlagPhase }

\* the command lines of n arguments after the program name
ArgLists(n) == { <<p>> \o s : p \in ProgNames, s \in [1..n -> Words] }

\* ------------------------------------------------------------------------
\* Helpers on Vec<String> and str
Reverse(s) == [i \in 1..Len(s) |-> s[Len(s) + 1 - i]]

\* Iterator::skip(1)
Skip1(s) == IF Len(s) = 0 THEN <<>> ELSE Tail(s)

\* Vec::pop: the last element, and the vector without it
Last(s) == s[Len(s)]

Front(s) == SubSeq(s, 1, Len(s) - 1)

starts_with(item, prefix) ==
    /\ Len(item) >= Len(prefix)
    /\ SubSeq(item, 1, Len(prefix)) = prefix

\* ------------------------------------------------------------------------
\* CompilerBuilder
BuilderDefault == [measure |-> None, verbosity |-> None, phase |-> None]

Builder_verbosity_FirstWins(self, val) ==
    IF self.verbosity = None THEN [self EXCEPT !.verbosity = Some(val)] ELSE self

Builder_verbosity(self, val) == [self EXCEPT !.verbosity = Some(val)]

Builder_phase(self, val) == [self EXCEPT !.phase = Some(val)]

Builder_measure_Toggle(self, val) ==
    [self EXCEPT !.measure = IF self.measure = None THEN Some(val) ELSE None]

Builder_measure(self, val) == [self EXCEPT !.measure = Some(val)]

Builder_build(self) ==
    [ measure    |-> unwrap_or(self.measure, FALSE),
      verbosity  |-> unwrap_or(self.verbosity, 0),
      stop_phase |-> unwrap_or(self.phase, EmptyString) ]

NoCompiler == [measure |-> FALSE, verbosity |-> 0, stop_phase |-> <<"?">>]

\* ------------------------------------------------------------------------
\* ArgParse::parse

\* The inner match of the "--phase" arm: the stop phase a phase word names,
\* None when the word names no phase (the panicking arm).
PhaseOf_Verbatim(word) ==
    IF word \in {StrParse, StrElab, StrMono, StrFlat} THEN Some(word) ELSE None

PhaseOf(word) ==
    CASE word = StrParse -> Some(StrParse)
      [] word = StrElab  -> Some(StrElaborate)
      [] word = StrMono  -> Some(StrMonomorphize)
      [] word = StrFlat  -> Some(StrFlatten)
      [] OTHER           -> None

\* line 54
IsFlag_SingleDash(item) == starts_with(item, <<"-">>)

IsFlag(item) == starts_with(item, DashDash)

\* line 49
InitStack_NoRev(a) == Skip1(a)

InitStack(a) == Reverse(Skip1(a))

\* line 82
PushFile_Front(fs, item) == <<item>> \o fs

PushFile(fs, item) == Append(fs, item)

\* line 53 / line 70: the vector after stack.pop()
Pop(s) == Front(s)

Note(role, item) == [role |-> role, item |-> item]

\* lines 49-51
ParseEnter ==
    /\ pc = "start"
    /\ stack' = InitStack(args)
    /\ files' = <<>>
    /\ builder' = BuilderDefault
    /\ pc' = "loop"
    /\ UNCHANGED <<args, panic, compiler, exit_status, consumed>>

\* One iteration of the while loop that takes a plain flag arm (lines 56-67)
FlagArm(flag, b) ==
    /\ pc = "loop"
    /\ stack # <<>>
    /\ LET item == Last(stack) IN
        /\ IsFlag(item)
        /\ item = flag
        /\ stack' = Pop(stack)
        /\ builder' = b
        /\ consumed' = Append(consumed, Note("flag", item))
    /\ UNCHANGED <<args, files, pc, panic, compiler, exit_status>>

ArmSilent == FlagArm(FlagSilent, Builder_verbosity(builder, 0))

ArmV == FlagArm(FlagV, Builder_verbosity(builder, 1))

ArmVV == FlagArm(FlagVV, Builder_verbosity(builder, 2))

ArmMeasure == FlagArm(FlagMeasure, Builder_measure(builder, TRUE))

\* lines 68-78, the phase word is one of the four
ArmPhase ==
    /\ pc = "loop"
    /\ stack # <<>>
    /\ LET item == Last(stack)
           rest == Pop(stack)
       IN  /\ IsFlag(item)
           /\ item = FlagPhase
           /\ rest # <<>>
           /\ PhaseOf(Last(rest)) # None
           /\ stack' = Pop(rest)
           /\ builder' = Builder_phase(builder, PhaseOf(Last(rest))[1])
           /\ consumed' = consumed \o <<Note("flag", item), Note("phase", Last(rest))>>
    /\ UNCHANGED <<args, files, pc, panic, compiler, exit_status>>

\* line 70: stack.pop() is None, expect panics
ArmPhaseMissing ==
    /\ pc = "loop"
    /\ stack # <<>>
    /\ LET item == Last(stack)
           rest == Pop(stack)
       IN  /\ IsFlag(item)
           /\ item = FlagPhase
           /\ rest = <<>>
           /\ stack' = rest
           /\ consumed' = Append(consumed, Note("flag", item))
    /\ pc' = "panicked"
    /\ panic' = "expected phase after --phase"
    /\ UNCHANGED <<args, files, builder, compiler, exit_status>>

\* line 75
ArmPhaseUnrecognized ==
    /\ pc = "loop"
    /\ stack # <<>>
    /\ LET item == Last(stack)
           rest == Pop(stack)
       IN  /\ IsFlag(item)
           /\ item = FlagPhase
           /\ rest # <<>>
           /\ PhaseOf(Last(rest)) = None
           /\ stack' = Pop(rest)
           /\ consumed' = consumed \o <<Note("flag", item), Note("badphase", Last(rest))>>
    /\ pc' = "panicked"
    /\ panic' = "unrecognized compiler phase"
    /\ UNCHANGED <<args, files, builder, compiler, exit_status>>

\* line 79
ArmUnknownFlag ==
    /\ pc = "loop"
    /\ stack # <<>>
    /\ LET item == Last(stack) IN
        /\ IsFlag(item)
        /\ item \notin {FlagSilent, FlagV, FlagVV, FlagMeasure, FlagPhase}
        /\ stack' = Pop(stack)
        /\ consumed' = Append(consumed, Note("badflag", item))
    /\ pc' = "panicked"
    /\ panic' = "unrecognized compiler flag"
    /\ UNCHANGED <<args, files, builder, compiler, exit_status>>

\* lines 81-83
ArmFile ==
    /\ pc = "loop"
    /\ stack # <<>>
    /\ LET item == Last(stack) IN
        /\ ~IsFlag(item)
        /\ stack' = Pop(stack)
        /\ files' = PushFile(files, item)
        /\ consumed' = Append(consumed, Note("file", item))
    /\ UNCHANGED <<args, builder, pc, panic, compiler, exit_status>>

\* lines 52, 86: the loop ends and parse returns ArgParse { builder, files }
ParseReturn ==
    /\ pc = "loop"
    /\ stack = <<>>
    /\ pc' = "returned"
    /\ UNCHANGED <<args, stack, files, builder, panic, compiler, exit_status, consumed>>

\* CompilerBuilder::build, lines 13-24
Build ==
    /\ pc = "returned"
    /\ compiler' = Builder_build(builder)
    /\ pc' = "built"
    /\ UNCHANGED <<args, stack, files, builder, panic, exit_status, consumed>>

\* A panic nobody catches ends the process: status 101 when the panic
\* unwinds, 134 (SIGABRT) when the build aborts on panic.
PanicStatus == {101, 134}

Die ==
    /\ pc = "panicked"
    /\ \E s \in PanicStatus : exit_status' = s
    /\ pc' = "dead"
    /\ UNCHANGED <<args, stack, files, builder, panic, compiler, consumed>>

ArgIdle ==
    /\ args = <<>>
    /\ stack = <<>>
    /\ files = <<>>
    /\ builder = BuilderDefault
    /\ pc = "idle"
    /\ panic = ""
    /\ compiler = NoCompiler
    /\ exit_status = -1
    /\ consumed = <<>>

ExprIdle ==
    /\ expr = <<>>
    /\ ne = "unset"
    /\ path = <<>>
    /\ mutated = <<>>
    /\ mne = "unset"
    /\ epc = "idle"

RowIdle ==
    /\ row = <<>>
    /\ fun = ""
    /\ out = <<>>
    /\ rpc = "idle"

InitArgs ==
    /\ \E n \in 0..MaxArgs : args \in ArgLists(n)
    /\ stack = <<>>
    /\ files = <<>>
    /\ builder = BuilderDefault
    /\ pc = "start"
    /\ panic = ""
    /\ compiler = NoCompiler
    /\ exit_status = -1
    /\ consumed = <<>>
    /\ ExprIdle
    /\ RowIdle

NextArgs ==
    \/ (ParseEnter /\ UNCHANGED <<exprVars, rowVars>>)
    \/ (ArmSilent /\ UNCHANGED <<exprVars, rowVars>>)
    \/ (ArmV /\ UNCHANGED <<exprVars, rowVars>>)
    \/ (ArmVV /\ UNCHANGED <<exprVars, rowVars>>)
    \/ (ArmMeasure /\ UNCHANGED <<exprVars, rowVars>>)
    \/ (ArmPhase /\ UNCHANGED <<exprVars, rowVars>>)
    \/ (ArmPhaseMissing /\ UNCHANGED <<exprVars, rowVars>>)
    \/ (ArmPhaseUnrecognized /\ UNCHANGED <<exprVars, rowVars>>)
    \/ (ArmUnknownFlag /\ UNCHANGED <<exprVars, rowVars>>)
    \/ (ArmFile /\ UNCHANGED <<exprVars, rowVars>>)
    \/ (ParseReturn /\ UNCHANGED <<exprVars, rowVars>>)
    \/ (Build /\ UNCHANGED <<exprVars, rowVars>>)
    \/ (Die /\ UNCHANGED <<exprVars, rowVars>>)

SpecArgs == InitArgs /\ [][NextArgs]_vars

\* The loop of parse is sequential code: a step that can be taken is taken.
FairSpecArgs == SpecArgs /\ WF_vars(NextArgs)

\* ------------------------------------------------------------------------
\* sml-core: ExprKind.  A node is [kind, con, sub]: con is the constructor
\* of a Con node ("" otherwise) and sub the node's child expressions in
\* source order (the scrutinee or handled expression followed by the rule
\* bodies for Case and Handle; the bound expressions followed by the body
\* for Let; the rows for Record).  Types, spans, patterns and symbols are
\* left out: non_expansive reads none of them.
C_REF == "ref"

C_CONS == "::"

Mk(kind, sub) == [kind |-> kind, con |-> "", sub |-> sub]

Con(c) == [kind |-> "Con", con |-> c, sub |-> <<>>]

\* Row<T>
Row(label, data, span) == [label |-> label, data |-> data, span |-> span]

\* the rows of a record whose fields are the expressions of s
RowsOf(s) == [i \in 1..Len(s) |-> Row(i, s[i], 0)]

Leaves == { Con(C_REF), Con(C_CONS), Mk("Const", <<>>), Mk("Var", <<>>),
            Mk("Primitive", <<>>) }

\* the number of children a node of each kind can have
ArityOK(kind, n) ==
    CASE kind = "App" -> n = 2
      [] kind \in {"Lambda", "Raise"} -> n = 1
      [] kind \in {"Case", "Handle", "Let"} -> n >= 1
      [] kind \in {"List", "Seq", "Record"} -> TRUE

InnerKinds == {"App", "Case", "Handle", "Lambda", "Let", "List", "Raise", "Record", "Seq"}

Node(kind, s) == IF kind = "Record" THEN Mk(kind, RowsOf(s)) ELSE Mk(kind, s)

\* The expressions explored: every tree of at most MaxNodes nodes.
MaxNodes == 3

RECURSIVE ExprsOfSize(_), SeqsOfSize(_)
ExprsOfSize(n) ==
    (IF n = 1 THEN Leaves ELSE {}) \cup
    { Node(k, s) : <<k, s>> \in
        { ks \in InnerKinds \X SeqsOfSize(n - 1) : ArityOK(ks[1], Len(ks[2])) } }

SeqsOfSize(n) ==
    IF n = 0 THEN {<<>>}
    ELSE UNION { { <<x>> \o s : x \in ExprsOfSize(i), s \in SeqsOfSize(n - i) } : i \in 1..n }

Exprs == UNION { ExprsOfSize(n) : n \in 1..MaxNodes }

\* the child expressions of a node
Children(e) ==
    IF e.kind = "Record" THEN [i \in 1..Len(e.sub) |-> e.sub[i].data] ELSE e.sub

RECURSIVE non_expansive_RefIsValue(_)
non_expansive_RefIsValue(e) ==
    IF e.kind \in {"Con", "Const", "Lambda", "Var", "Primitive"} THEN TRUE
    ELSE IF e.kind = "Record" THEN
        \A i \in 1..Len(e.sub) : non_expansive_RefIsValue(e.sub[i].data)
    ELSE IF e.kind = "List" THEN
        \A i \in 1..Len(e.sub) : non_expansive_RefIsValue(e.sub[i])
    ELSE FALSE

RECURSIVE non_expansive_Any(_)
non_expansive_Any(e) ==
    IF e.kind = "Con" /\ e.con = C_REF THEN FALSE
    ELSE IF e.kind \in {"Con", "Const", "Lambda", "Var", "Primitive"} THEN TRUE
    ELSE IF e.kind = "Record" THEN
        e.sub = <<>> \/ \E i \in 1..Len(e.sub) : non_expansive_Any(e.sub[i].data)
    ELSE IF e.kind = "List" THEN
        e.sub = <<>> \/ \E i \in 1..Len(e.sub) : non_expansive_Any(e.sub[i])
    ELSE FALSE

\* Expr::non_expansive, lib.rs:117-129; the arms in the order of the match
RECURSIVE non_expansive(_)
non_expansive(e) ==
    IF e.kind = "Con" /\ e.con = C_REF THEN FALSE
    ELSE IF e.kind = "Con" THEN TRUE
    ELSE IF e.kind = "Const" THEN TRUE
    ELSE IF e.kind = "Lambda" THEN TRUE
    ELSE IF e.kind = "Var" THEN TRUE
    ELSE IF e.kind = "Primitive" THEN TRUE
    ELSE IF e.kind = "Record" THEN
        \A i \in 1..Len(e.sub) : non_expansive(e.sub[i].data)
    ELSE IF e.kind = "List" THEN
        \A i \in 1..Len(e.sub) : non_expansive(e.sub[i])
    ELSE FALSE

\* The property test on non_expansive: a subterm is named by its path, the
\* child indices from the root; the test replaces it by a lambda.
RECURSIVE Paths(_)
Paths(e) ==
    {<<>>} \cup
    UNION { { <<i>> \o p : p \in Paths(Children(e)[i]) } : i \in 1..Len(Children(e)) }

RECURSIVE SubtermAt(_, _)
SubtermAt(e, p) == IF p = <<>> THEN e ELSE SubtermAt(Children(e)[p[1]], Tail(p))

RECURSIVE Replace(_, _, _)
Replace(e, p, by) ==
    IF p = <<>> THEN by
    ELSE IF e.kind = "Record" THEN
        [e EXCEPT !.sub[p[1]].data = Replace(e.sub[p[1]].data, Tail(p), by)]
    ELSE [e EXCEPT !.sub[p[1]] = Replace(e.sub[p[1]], Tail(p), by)]

\* fn x => x
LambdaNode == Mk("Lambda", <<Mk("Var", <<>>)>>)

CallNonExpansive ==
    /\ epc = "init"
    /\ ne' = non_expansive(expr)
    /\ epc' = "called"
    /\ UNCHANGED <<expr, path, mutated, mne>>

MutateToLambda ==
    /\ epc = "called"
    /\ \E p \in Paths(expr) :
        /\ ~non_expansive(SubtermAt(expr, p))
        /\ path' = p
        /\ mutated' = Replace(expr, p, LambdaNode)
        /\ mne' = non_expansive(Replace(expr, p, LambdaNode))
    /\ epc' = "mutated"
    /\ UNCHANGED <<expr, ne>>

InitExpr ==
    /\ expr \in Exprs
    /\ ne = "unset"
    /\ path = <<>>
    /\ mutated = <<>>
    /\ mne = "unset"
    /\ epc = "init"
    /\ ArgIdle
    /\ RowIdle

NextExpr ==
    \/ (CallNonExpansive /\ UNCHANGED <<argVars, rowVars>>)
    \/ (MutateToLambda /\ UNCHANGED <<argVars, rowVars>>)

SpecExpr == InitExpr /\ [][NextExpr]_vars

\* ------------------------------------------------------------------------
\* sml-core: Row<T>::fmap and Row<Result<T, E>>::flatten
MaxSymbol == 2

MaxSpan == 2

MaxData == 2

Ok(v) == [tag |-> "Ok", val |-> v]

Err(e) == [tag |-> "Err", val |-> e]

\* the error values, numbered
MaxError == 1

Errors == 0..MaxError

PlainRows == { Row(l, d, sp) : l \in 0..MaxSymbol, d \in 0..MaxData, sp \in 0..MaxSpan }

ResultRows ==
    { Row(l, d, sp) : l \in 0..MaxSymbol,
                      d \in {Ok(v) : v \in 0..MaxData} \cup {Err(x) : x \in Errors},
                      sp \in 0..MaxSpan }

\* the closures handed to fmap
Closures == {"succ", "double", "zero", "wrap"}

Call(f, x) ==
    CASE f = "succ"   -> x + 1
      [] f = "double" -> 2 * x
      [] f = "zero"   -> 0
      [] f = "wrap"   -> Ok(x)

fmap_LabelAsSpan(self, f) ==
    [label |-> self.label, span |-> self.label, data |-> Call(f, self.data)]

\* lib.rs:139-145
fmap(self, f) ==
    [label |-> self.label, span |-> self.span, data |-> Call(f, self.data)]

\* lib.rs:148-154: the ? returns the error of data, else the row is built
flatten(self) ==
    IF self.data.tag = "Err" THEN Err(self.data.val)
    ELSE Ok([label |-> self.label, span |-> self.span, data |-> self.data.val])

\* rpc starts as the type of row.data: "plain" for T, "result" for Result<T, E>
CallFmap ==
    /\ rpc = "plain"
    /\ \E f \in Closures :
        /\ fun' = f
        /\ out' = fmap(row, f)
    /\ rpc' = "fmap"
    /\ UNCHANGED row

CallFlatten ==
    /\ rpc = "result"
    /\ out' = flatten(row)
    /\ rpc' = "flatten"
    /\ UNCHANGED <<row, fun>>

InitRow ==
    /\ \/ row \in PlainRows /\ rpc = "plain"
       \/ row \in ResultRows /\ rpc = "result"
    /\ fun = ""
    /\ out = <<>>
    /\ ArgIdle
    /\ ExprIdle

NextRow ==
    \/ (CallFmap /\ UNCHANGED <<argVars, exprVars>>)
    \/ (CallFlatten /\ UNCHANGED <<argVars, exprVars>>)

SpecRow == InitRow /\ [][NextRow]_vars

\* ------------------------------------------------------------------------
\* What the command line says, read off args without running the parser.
\* Positions are those of args: 1 is the program name.
Positions == 2..Len(args)

Dashed(w) == Len(w) >= 2 /\ w[1] = "-" /\ w[2] = "-"

VerbosityFlags == {FlagSilent, FlagV, FlagVV}

KnownFlags == {FlagSilent, FlagV, FlagVV, FlagMeasure, FlagPhase}

PhaseWords == {StrParse, StrElab, StrMono, StrFlat}

\* the argument at i follows a --phase that is not the program name
IsPhaseValue(i) == i > 2 /\ args[i - 1] = FlagPhase

Max(S) == CHOOSE m \in S : \A x \in S : x <= m

Min(S) == CHOOSE m \in S : \A x \in S : m <= x

Level(w) == CASE w = FlagSilent -> 0 [] w = FlagV -> 1 [] w = FlagVV -> 2

LongName(w) ==
    CASE w = StrParse -> <<"p", "a", "r", "s", "e">>
      [] w = StrElab  -> <<"e", "l", "a", "b", "o", "r", "a", "t", "e">>
      [] w = StrMono  -> <<"m", "o", "n", "o", "m", "o", "r", "p", "h", "i", "z", "e">>
      [] w = StrFlat  -> <<"f", "l", "a", "t", "t", "e", "n">>

RECURSIVE ArgsAt(_)
\* the arguments at the positions of S, in command-line order
ArgsAt(S) == IF S = {} THEN <<>> ELSE <<args[Min(S)]>> \o ArgsAt(S \ {Min(S)})

Succeeded == pc \in {"returned", "built"}

Aborted == pc \in {"panicked", "dead"}

\* ---- C3
VerbosityPositions == {i \in Positions : args[i] \in VerbosityFlags}

\* C3: once parse has succeeded and the builder is built, the compiler's
\* verbosity is the level of the verbosity flag latest on the command line
\* (--silent 0, --v 1, --vv 2), and 0 when there is none.
C3_VerbosityLastFlagWins ==
    pc = "built" =>
        compiler.verbosity =
            IF VerbosityPositions = {} THEN 0 ELSE Level(args[Max(VerbosityPositions)])

C3_Witness ==
    /\ pc = "built"
    /\ \E i, j \in VerbosityPositions :
        /\ i < j
        /\ j = Max(VerbosityPositions)
        /\ args[i] = FlagVV
        /\ args[j] = FlagV
    /\ compiler.verbosity = 1

\* ---- C4
PhasePositions == {i \in Positions : args[i] = FlagPhase}

\* C4: after a successful parse every --phase has taken the argument after
\* it as its value (that argument is neither a file nor a flag), and the
\* built compiler's stop_phase is the long name of the value of the last
\* --phase, or the empty string when there is no --phase.
C4_PhaseValueConsumed ==
    /\ Succeeded =>
        /\ \A i \in PhasePositions :
            /\ i < Len(args)
            /\ consumed[i - 1] = Note("flag", FlagPhase)
            /\ consumed[i] = Note("phase", args[i + 1])
        /\ Len(files) = Cardinality({k \in 1..Len(consumed) : consumed[k].role = "file"})
    /\ pc = "built" =>
        compiler.stop_phase =
            IF PhasePositions = {} THEN <<>>
            ELSE LongName(args[Max(PhasePositions) + 1])

C4_Witness ==
    /\ pc = "built"
    /\ Cardinality(PhasePositions) = 2
    /\ args[Min(PhasePositions) + 1] = StrFlat
    /\ args[Max(PhasePositions) + 1] = StrElab
    /\ compiler.stop_phase = StrElaborate

\* ---- C5
FilePositions == {i \in Positions : ~Dashed(args[i]) /\ ~IsPhaseValue(i)}

\* C5: after a successful parse, files is the arguments after the program
\* name that neither start with "--" nor are the value of a --phase, in
\* command-line order, repeats kept.
C5_FilesInOrder == Succeeded => files = ArgsAt(FilePositions)

C5_Witness ==
    /\ Succeeded
    /\ args[1] = FlagPhase
    /\ Len(files) = 3
    /\ files[1] = files[3]
    /\ files[1] # files[2]

\* ---- C6
Offence(i) ==
    IF IsPhaseValue(i) THEN ""
    ELSE IF args[i] = FlagPhase THEN
        IF i = Len(args) THEN "expected phase after --phase"
        ELSE IF args[i + 1] \notin PhaseWords THEN "unrecognized compiler phase"
        ELSE ""
    ELSE IF Dashed(args[i]) /\ args[i] \notin KnownFlags THEN "unrecognized compiler flag"
    ELSE ""

Offending == {i \in Positions : Offence(i) # ""}

\* the number of arguments parse has taken when it stops at the offence at i
TakenAt(i) == IF Offence(i) = "unrecognized compiler phase" THEN i ELSE i - 1

\* C6: parse panics exactly when some argument offends (an unknown flag, a
\* --phase that is last, a --phase followed by something that is no phase
\* word); it then panics with the message of the first offending argument,
\* having taken nothing after it, and no compiler is built.  With no
\* offending argument it returns.
C6_AbortsAtFirstOffence ==
    /\ Aborted =>
        /\ Offending # {}
        /\ panic = Offence(Min(Offending))
        /\ Len(stack) = (Len(args) - 1) - TakenAt(Min(Offending))
        /\ compiler = NoCompiler
    /\ Succeeded => Offending = {} /\ panic = ""
    /\ (pc = "loop" /\ stack # <<>> /\ Offending = {}) => ENABLED
          (ArmSilent \/ ArmV \/ ArmVV \/ ArmMeasure \/ ArmPhase \/ ArmFile)

C6_Witness ==
    /\ pc = "panicked"
    /\ panic = "unrecognized compiler phase"
    /\ Len(args) = 4
    /\ args[2] = FlagPhase
    /\ args[3] = FlagV
    /\ args[4] = DashDash

\* ---- C7
\* C7: when the command line is invalid the driver terminates with exit
\* code 2.
C7_InvalidArgumentsExitTwo == pc = "dead" => exit_status = 2

\* ---- C8
\* C8: the built compiler's measure is true exactly when --measure occurs
\* among the arguments (a successful parse has taken every occurrence as a
\* flag); once --measure has set it, no later argument resets it.
C8_MeasureIffFlag ==
    /\ [](pc = "built" => compiler.measure = (\E i \in Positions : args[i] = FlagMeasure))
    /\ [][builder.measure = Some(TRUE) => builder'.measure = Some(TRUE)]_vars

C8_Witness ==
    /\ pc = "built"
    /\ compiler.measure = TRUE
    /\ Cardinality({i \in Positions : args[i] = FlagMeasure}) = 2
    /\ args[Len(args)] # FlagMeasure

\* ---- C9
\* C9: the loop of parse ends, by returning or by panicking; every
\* iteration takes one argument off the stack, or two in the --phase arm
\* when an argument follows; arguments are taken in command-line order,
\* and on return each argument after the program name was taken once.
C9_LoopTerminates ==
    /\ <>(Succeeded \/ Aborted)
    /\ [][pc = "loop" /\ stack # <<>> =>
            /\ Len(stack) - Len(stack') \in {1, 2}
            /\ Len(stack) - Len(stack') = 2 <=>
                   Last(stack) = FlagPhase /\ Len(stack) >= 2]_vars
    /\ [](pc \in {"loop", "returned", "built", "panicked", "dead"} =>
            /\ Len(consumed) + Len(stack) = Len(args) - 1
            /\ \A k \in 1..Len(consumed) : consumed[k].item = args[k + 1])

C9_Witness ==
    /\ pc = "returned"
    /\ Len(args) = 4
    /\ args[2] = FlagPhase
    /\ Len(consumed) = 3
    /\ consumed[3].role = "file"

\* ------------------------------------------------------------------------
\* The non-expansive forms, as the value restriction lists them.
RECURSIVE IsValueForm(_)
IsValueForm(e) ==
    \/ e.kind \in {"Const", "Var", "Primitive", "Lambda"}
    \/ e.kind = "Con" /\ e.con # C_REF
    \/ e.kind = "Record" /\ \A i \in 1..Len(e.sub) : IsValueForm(e.sub[i].data)
    \/ e.kind = "List" /\ \A i \in 1..Len(e.sub) : IsValueForm(e.sub[i])

\* ---- C1
\* C1: non_expansive(e) is true exactly when e is a constant, a variable,
\* a primitive, a lambda, a constructor other than ref, a record whose
\* fields are all non-expansive or a list whose elements are all
\* non-expansive; it is false for App, Case, Let, Handle, Raise, Seq and
\* for the constructor ref.
C1_NonExpansiveForms ==
    epc \in {"called", "mutated"} =>
        /\ ne = IsValueForm(expr)
        /\ expr.kind \in {"App", "Case", "Let", "Handle", "Raise", "Seq"} => ne = FALSE
        /\ (expr.kind = "Con" /\ expr.con = C_REF) => ne = FALSE

C1_Witness ==
    /\ epc = "called"
    /\ expr.kind = "Record"
    /\ Len(expr.sub) = 1
    /\ expr.sub[1].data.kind = "List"
    /\ expr.sub[1].data.sub = <<Con(C_REF)>>
    /\ ne = FALSE

RECURSIVE ClearWay(_, _)
ClearWay(e, p) ==
    \/ p = <<>>
    \/ e.kind = "Lambda"
    \/ /\ e.kind \in {"Record", "List"}
       /\ \A j \in 1..Len(Children(e)) : j # p[1] => IsValueForm(Children(e)[j])
       /\ ClearWay(Children(e)[p[1]], Tail(p))

C10_RowLabelSpanKept ==
    /\ [](rpc = "fmap" =>
            /\ out.label = row.label
            /\ out.span = row.span
            /\ out.data = Call(fun, row.data)
            /\ DOMAIN out = {"label", "data", "span"})
    /\ [](rpc = "flatten" /\ row.data.tag = "Ok" =>
            /\ out.tag = "Ok"
            /\ out.val = Row(row.label, row.data.val, row.span))
    /\ [](rpc = "flatten" /\ row.data.tag = "Err" => out = Err(row.data.val))
    /\ [][rpc = "plain" => row' = row]_vars

C10_Witness ==
    /\ rpc = "fmap"
    /\ fun = "succ"
    /\ row = Row(2, 1, 0)
    /\ out = Row(2, 2, 0)

====
